---- MODULE Spec2Model ----
(***************************************************************************)
(* Bakery operations application (trosset_app): batch planner, unit        *)
(* conversion, stock ledger, order state machine and ingredient            *)
(* consolidation, modelled from the TypeScript server actions and helpers. *)
(***************************************************************************)
EXTENDS Integers, Sequences, FiniteSets, TLC

\* ------------------------------------------------------------------ bounds
MaxUnits == 7         \* largest totalUnits passed to the batch planner
MaxCap == 3           \* largest batchSize passed to the batch planner
MaxNeg == 2           \* inputs of the batch planner go down to -MaxNeg
MaxStock == 2         \* largest initial current_stock of an inventory item
MaxQty == 2           \* largest |qty_change| of a stock movement
MaxMovements == 2     \* rows the stock_movements table may hold
MaxRecipeQty == 2     \* largest quantity of a recipe line
MaxBatchUnits == 2    \* largest total_units_in_batch of a stored batch
MaxConvQty == 3       \* largest quantity passed to convertUnit
MaxPurchaseCost == 2  \* largest cost per purchase unit of an item
MaxPatchTotal == 2    \* largest total_amount written through updateOrder
MaxSelling == 3       \* largest selling price passed to the margin code
MaxCost == 3          \* largest cost passed to the margin code
MaxThreshold == 1     \* largest min_stock_threshold written to an item
MaxPrice == 2         \* largest price of a price-list item
MaxBatchRows == 3     \* rows the production_batches table may hold
MaxPhases == 3        \* phases one product form may hold

VARIABLES
    \* batch planner call (lib/utils/calculations.ts)
    totalUnits, batchSize, batches, batchCount, bdone,
    sellingPrice, cost, margin, rowMargin, loadedMargin, mdone,
    \* product forms (app/inventarios/productos, actions/products.ts)
    phases, production_phases, formPage, lastPhaseOp,
    \* unit conversion call (lib/utils/unitConversions.ts)
    unit1, unit2, compatible, compatList, udone,
    quantity, converted, roundTrip,
    purchaseCost, lineCost, recipeItemCost,
    \* stock ledger (actions/inventory.ts)
    current_stock, initial_stock, stock_movements, req,
    min_stock_threshold, requests,
    \* orders (actions/orders.ts, app/comercial/pedidos/[id]/page.tsx)
    orders, order_items, lastCall,
    \* price lists (actions/priceLists.ts)
    price_lists, price_list_items,
    \* planning (actions/planning.ts)
    production_batches, product_recipes, consolidated,
    production_days, products

marginVars == <<sellingPrice, cost, margin, rowMargin, loadedMargin, mdone>>
phaseVars == <<phases, production_phases, formPage, lastPhaseOp>>
plannerVars == <<totalUnits, batchSize, batches, batchCount, bdone, marginVars,
                 phaseVars>>
costVars == <<purchaseCost, lineCost, recipeItemCost>>
unitVars == <<unit1, unit2, compatible, compatList, udone,
              quantity, converted, roundTrip, costVars>>
stockVars == <<current_stock, initial_stock, stock_movements, req,
               min_stock_threshold, requests>>
priceVars == <<price_lists, price_list_items>>
orderVars == <<orders, order_items, lastCall, priceVars>>
planVars == <<production_batches, product_recipes, consolidated,
              production_days, products>>
vars == <<plannerVars, unitVars, stockVars, orderVars, planVars>>

\* ------------------------------------------------------------ identifiers
Items == {"i1", "i2"}
Products == {"p1", "p2"}
OrderIds == {"o1", "o2"}
Days == {"d1", "d2"}
NoOrder == [status |-> "none", production_day_id |-> "null", total_amount |-> 0]
NoDay == "null"

\* ------------------------------------------------------------- helpers
Min(a, b) == IF a < b THEN a ELSE b
Max(a, b) == IF a > b THEN a ELSE b

RECURSIVE SumSeq(_)
SumSeq(s) == IF s = <<>> THEN 0 ELSE Head(s) + SumSeq(Tail(s))

\* Array.prototype.includes on a sequence
Includes(s, x) == \E i \in 1..Len(s) : s[i] = x

\* ===================================================================
\* Batch planner: lib/utils/calculations.ts
\* ===================================================================

\* the while loop of calculateBatches (lines 28-32)
RECURSIVE BatchLoop(_, _, _)
BatchLoop(remaining, bs, acc) ==
    IF remaining > 0
    THEN LET batchUnits == Min(remaining, bs)
         IN  BatchLoop(remaining - batchUnits, bs, Append(acc, batchUnits))
    ELSE acc

\* faulty variant: the last batch is rounded up to full capacity
RECURSIVE BatchLoopRoundUp(_, _, _)
BatchLoopRoundUp(remaining, bs, acc) ==
    IF remaining > 0
    THEN BatchLoopRoundUp(remaining - Min(remaining, bs), bs, Append(acc, bs))
    ELSE acc

calculateBatchesRoundUp(t, b) ==
    IF t <= 0 \/ b <= 0 THEN <<>> ELSE BatchLoopRoundUp(t, b, <<>>)

\* faulty variant: a non-positive batchSize falls back to a capacity of 1
calculateBatchesDefaultCap(t, b) ==
    IF t <= 0 THEN <<>> ELSE BatchLoop(t, IF b <= 0 THEN 1 ELSE b, <<>>)

calculateBatches(t, b) ==
    IF t <= 0 \/ b <= 0 THEN <<>> ELSE BatchLoop(t, b, <<>>)

\* Math.ceil(t / b) for integers t > 0, b > 0
MathCeilDiv(t, b) == IF t % b = 0 THEN t \div b ELSE (t \div b) + 1

\* faulty variant: the quotient is rounded down
calculateBatchCountFloor(t, b) ==
    IF t <= 0 \/ b <= 0 THEN 0 ELSE t \div b

calculateBatchCount(t, b) ==
    IF t <= 0 \/ b <= 0 THEN 0 ELSE MathCeilDiv(t, b)

IdlePhases ==
    /\ phases = <<>>
    /\ production_phases = <<>>
    /\ formPage = "closed"
    /\ lastPhaseOp = [op |-> "none", index |-> 0]

IdleMargin ==
    /\ sellingPrice = 0
    /\ cost = 0
    /\ margin = 0
    /\ rowMargin = 0
    /\ loadedMargin = 0
    /\ mdone = {}

PlannerInputs == (0 - MaxNeg)..MaxUnits
PlannerCaps == (0 - MaxNeg)..MaxCap

InitPlanner ==
    /\ totalUnits \in PlannerInputs
    /\ batchSize \in PlannerCaps
    /\ batches = <<>>
    /\ batchCount = 0
    /\ bdone = {}
    /\ IdleMargin
    /\ IdlePhases

IdlePlanner ==
    /\ totalUnits = 0
    /\ batchSize = 0
    /\ batches = <<>>
    /\ batchCount = 0
    /\ bdone = {}
    /\ IdleMargin
    /\ IdlePhases

CallCalculateBatches ==
    /\ "batches" \notin bdone
    /\ batches' = calculateBatches(totalUnits, batchSize)
    /\ bdone' = bdone \cup {"batches"}
    /\ UNCHANGED <<totalUnits, batchSize, batchCount, marginVars, phaseVars>>

CallCalculateBatchCount ==
    /\ "count" \notin bdone
    /\ batchCount' = calculateBatchCount(totalUnits, batchSize)
    /\ bdone' = bdone \cup {"count"}
    /\ UNCHANGED <<totalUnits, batchSize, batches, marginVars, phaseVars>>

\* ===================================================================
\* Unit conversion: lib/utils/unitConversions.ts
\* ===================================================================
WEIGHT_UNITS == <<"kg", "g", "mg">>
VOLUME_UNITS == <<"L", "ml">>
PIECE_UNITS == <<"pz", "bulto", "caja", "saco">>
UnitType == {"kg", "g", "mg", "L", "ml", "pz", "bulto", "caja", "saco"}

areUnitsCompatible(u1, u2) ==
    LET isWeight1 == Includes(WEIGHT_UNITS, u1)
        isWeight2 == Includes(WEIGHT_UNITS, u2)
        isVolume1 == Includes(VOLUME_UNITS, u1)
        isVolume2 == Includes(VOLUME_UNITS, u2)
    IN  (isWeight1 /\ isWeight2) \/ (isVolume1 /\ isVolume2)

getCompatibleUnits(u) ==
    IF Includes(WEIGHT_UNITS, u) THEN WEIGHT_UNITS
    ELSE IF Includes(VOLUME_UNITS, u) THEN VOLUME_UNITS
    ELSE <<u>>

\* --- numbers of convertUnit: exact fractions num/den in lowest terms,
\* or null
RECURSIVE Gcd(_, _)
Gcd(a, b) == IF b = 0 THEN a ELSE Gcd(b, a % b)

Null == [isNull |-> TRUE, num |-> 0, den |-> 1]

Num(n, d) ==
    LET g == Gcd(n, d)
    IN  [isNull |-> FALSE, num |-> n \div g, den |-> d \div g]

Times(x, y) == Num(x.num * y.num, x.den * y.den)
DividedBy(x, y) == Num(x.num * y.den, x.den * y.num)

\* CONVERSION_FACTORS (lines 15-28): kg 1, g 0.001, mg 0.000001, L 1,
\* ml 0.001, piece units 1
CONVERSION_FACTORS ==
    [u \in UnitType |->
        CASE u = "g" -> Num(1, 1000)
          [] u = "mg" -> Num(1, 1000000)
          [] u = "ml" -> Num(1, 1000)
          [] OTHER -> Num(1, 1)]

\* faulty variant: the compatibility check is missing
convertUnitUnchecked(q, fromUnit, toUnit) ==
    IF fromUnit = toUnit THEN q
    ELSE DividedBy(Times(q, CONVERSION_FACTORS[fromUnit]),
                   CONVERSION_FACTORS[toUnit])

\* faulty variant: the base amount is returned, not divided by the target
\* factor
convertUnitToBase(q, fromUnit, toUnit) ==
    IF fromUnit = toUnit THEN q
    ELSE IF ~areUnitsCompatible(fromUnit, toUnit) THEN Null
    ELSE Times(q, CONVERSION_FACTORS[fromUnit])

\* lines 67-82
convertUnit(q, fromUnit, toUnit) ==
    IF fromUnit = toUnit THEN q
    ELSE IF ~areUnitsCompatible(fromUnit, toUnit) THEN Null
    ELSE LET baseAmount == Times(q, CONVERSION_FACTORS[fromUnit])
         IN  DividedBy(baseAmount, CONVERSION_FACTORS[toUnit])

\* calculateCost (lines 94-110)
calculateCost(q, quantityUnit, pCost, purchaseUnit) ==
    IF ~areUnitsCompatible(quantityUnit, purchaseUnit) THEN Null
    ELSE LET quantityInPurchaseUnit == convertUnit(q, quantityUnit, purchaseUnit)
         IN  IF quantityInPurchaseUnit.isNull THEN Null
             ELSE Times(quantityInPurchaseUnit, Num(pCost, 1))

\* calculateRecipeItemCost (app/inventarios/productos/nuevo/page.tsx lines
\* 168-172): 0 for an item without cost, and cost || 0
calculateRecipeItemCost(q, unit, itemCost, itemUnit) ==
    IF itemCost = 0 THEN Num(0, 1)
    ELSE LET c == calculateCost(q, unit, itemCost, itemUnit)
         IN  IF c.isNull THEN Num(0, 1) ELSE c

InitUnits ==
    /\ unit1 \in UnitType
    /\ unit2 \in UnitType
    /\ quantity \in 0..MaxConvQty
    /\ purchaseCost \in 0..MaxPurchaseCost
    /\ lineCost = Null
    /\ recipeItemCost = Null
    /\ compatible = FALSE
    /\ compatList = <<>>
    /\ converted = Null
    /\ roundTrip = Null
    /\ udone = {}

IdleUnits ==
    /\ unit1 = "kg"
    /\ unit2 = "kg"
    /\ quantity = 0
    /\ purchaseCost = 0
    /\ lineCost = Null
    /\ recipeItemCost = Null
    /\ compatible = FALSE
    /\ compatList = <<>>
    /\ converted = Null
    /\ roundTrip = Null
    /\ udone = {}

CallAreUnitsCompatible ==
    /\ "compatible" \notin udone
    /\ compatible' = areUnitsCompatible(unit1, unit2)
    /\ udone' = udone \cup {"compatible"}
    /\ UNCHANGED <<unit1, unit2, compatList, quantity, converted, roundTrip,
                   costVars>>

CallGetCompatibleUnits ==
    /\ "list" \notin udone
    /\ compatList' = getCompatibleUnits(unit1)
    /\ udone' = udone \cup {"list"}
    /\ UNCHANGED <<unit1, unit2, compatible, quantity, converted, roundTrip,
                   costVars>>

\* convertUnit(quantity, unit1, unit2)
CallConvertUnit ==
    /\ "convert" \notin udone
    /\ converted' = convertUnit(Num(quantity, 1), unit1, unit2)
    /\ udone' = udone \cup {"convert"}
    /\ UNCHANGED <<unit1, unit2, compatible, compatList, quantity, roundTrip,
                   costVars>>

\* convertUnit(converted, unit2, unit1) on a numeric first result
CallConvertBack ==
    /\ "convert" \in udone
    /\ "back" \notin udone
    /\ ~converted.isNull
    /\ roundTrip' = convertUnit(converted, unit2, unit1)
    /\ udone' = udone \cup {"back"}
    /\ UNCHANGED <<unit1, unit2, compatible, compatList, quantity, converted,
                   costVars>>

\* calculateCost(quantity, unit1, purchaseCost, unit2)
CallCalculateCost ==
    /\ "cost" \notin udone
    /\ lineCost' = calculateCost(Num(quantity, 1), unit1, purchaseCost, unit2)
    /\ udone' = udone \cup {"cost"}
    /\ UNCHANGED <<unit1, unit2, compatible, compatList, quantity, converted,
                   roundTrip, purchaseCost, recipeItemCost>>

\* calculateRecipeItemCost of a recipe line of the product form
CallCalculateRecipeItemCost ==
    /\ "recipe" \notin udone
    /\ recipeItemCost' =
           calculateRecipeItemCost(Num(quantity, 1), unit1, purchaseCost, unit2)
    /\ udone' = udone \cup {"recipe"}
    /\ UNCHANGED <<unit1, unit2, compatible, compatList, quantity, converted,
                   roundTrip, purchaseCost, lineCost>>

\* ===================================================================
\* Margin: lib/utils/calculations.ts and the price-list pages
\* ===================================================================

\* the result of a division by zero of a positive number
Infinity == [isNull |-> FALSE, num |-> 1, den |-> 0]

\* Math.round(x * 100) / 100
Round2(x) ==
    IF x.den = 0 THEN x
    ELSE Num((200 * x.num + x.den) \div (2 * x.den), 100)

\* calculateMargin (calculations.ts lines 172-175)
calculateMargin(sp, c) ==
    IF sp = 0 THEN Num(0, 1) ELSE Num((sp - c) * 100, sp)

\* handlePriceChange (listas-precios/nuevo/page.tsx lines 110-124, and the
\* edit page lines 122-135)
handlePriceChange(price, c) ==
    LET m == IF c > 0 THEN Num((price - c) * 100, c) ELSE Num(0, 1)
    IN  Round2(m)

\* loadData of the edit page (lines 90-103): a stored price of 0 is read
\* as no price; the division has no guard on the cost
loadData(existingPrice, costPrice) ==
    LET m == IF existingPrice # 0
             THEN (IF costPrice = 0 THEN Infinity
                   ELSE Num((existingPrice - costPrice) * 100, costPrice))
             ELSE Num(0, 1)
    IN  Round2(m)

InitMargin ==
    /\ sellingPrice \in 0..MaxSelling
    /\ cost \in 0..MaxCost
    /\ margin = 0
    /\ rowMargin = 0
    /\ loadedMargin = 0
    /\ mdone = {}

CallCalculateMargin ==
    /\ "margin" \notin mdone
    /\ margin' = calculateMargin(sellingPrice, cost)
    /\ mdone' = mdone \cup {"margin"}
    /\ UNCHANGED <<sellingPrice, cost, rowMargin, loadedMargin>>

CallHandlePriceChange ==
    /\ "row" \notin mdone
    /\ rowMargin' = handlePriceChange(sellingPrice, cost)
    /\ mdone' = mdone \cup {"row"}
    /\ UNCHANGED <<sellingPrice, cost, margin, loadedMargin>>

CallLoadData ==
    /\ "loaded" \notin mdone
    /\ loadedMargin' = loadData(sellingPrice, cost)
    /\ mdone' = mdone \cup {"loaded"}
    /\ UNCHANGED <<sellingPrice, cost, margin, rowMargin>>

\* ===================================================================
\* Stock ledger: actions/inventory.ts, createStockMovement
\* ===================================================================
QtyChanges == (0 - MaxQty)..MaxQty

Clients == {"c1", "c2"}

IdleReq ==
    [pc |-> "idle", item_id |-> "i1", qty_change |-> 0, newStock |-> 0,
     result |-> "none"]

\* sum of qty_change over the persisted movements of one item
RECURSIVE LedgerSum(_, _)
LedgerSum(moves, i) ==
    IF moves = <<>> THEN 0
    ELSE (IF Head(moves).item_id = i THEN Head(moves).qty_change ELSE 0)
         + LedgerSum(Tail(moves), i)

\* faulty variant: the delta is subtracted instead of added
NewStockSignSlip(currentStock, qtyChange) == currentStock - qtyChange

\* line 148: const newStock = currentStock + qtyChange
NewStock(currentStock, qtyChange) == currentStock + qtyChange

\* faulty variant: the negative-stock check is missing
RejectedNever(newStock) == FALSE

\* line 150: if (newStock < 0) return error
Rejected(newStock) == newStock < 0

InitStock ==
    /\ current_stock \in [Items -> 0..MaxStock]
    /\ initial_stock = current_stock
    /\ stock_movements = <<>>
    /\ req = IdleReq
    /\ min_stock_threshold = [i \in Items |-> 0]
    /\ requests = [c \in Clients |-> IdleReq]

IdleStock ==
    /\ current_stock = [i \in Items |-> 0]
    /\ initial_stock = current_stock
    /\ stock_movements = <<>>
    /\ req = IdleReq
    /\ min_stock_threshold = [i \in Items |-> 0]
    /\ requests = [c \in Clients |-> IdleReq]

\* a request arrives: createStockMovement({item_id, qty_change, ...})
SM_Call(i, q) ==
    /\ req.pc \in {"idle", "done"}
    /\ Len(stock_movements) < MaxMovements
    /\ req' = [pc |-> "select", item_id |-> i, qty_change |-> q,
               newStock |-> 0, result |-> "none"]
    /\ UNCHANGED <<current_stock, initial_stock, stock_movements,
                   min_stock_threshold, requests>>

\* lines 133-152: read current_stock, compute newStock, reject if negative
SM_Select(fail) ==
    /\ req.pc = "select"
    /\ IF fail
       THEN req' = [req EXCEPT !.pc = "done", !.result = "error_select"]
       ELSE LET currentStock == current_stock[req.item_id]
                newStock == NewStock(currentStock, req.qty_change)
            IN  IF Rejected(newStock)
                THEN req' = [req EXCEPT !.pc = "done", !.result = "negative"]
                ELSE req' = [req EXCEPT !.pc = "insert", !.newStock = newStock]
    /\ UNCHANGED <<current_stock, initial_stock, stock_movements,
                   min_stock_threshold, requests>>

\* lines 154-164: insert the movement row
SM_Insert(fail) ==
    /\ req.pc = "insert"
    /\ IF fail
       THEN /\ req' = [req EXCEPT !.pc = "done", !.result = "error_insert"]
            /\ UNCHANGED stock_movements
       ELSE /\ stock_movements' = Append(stock_movements,
                   [item_id |-> req.item_id, qty_change |-> req.qty_change])
            /\ req' = [req EXCEPT !.pc = "update"]
    /\ UNCHANGED <<current_stock, initial_stock, min_stock_threshold, requests>>

\* lines 166-178: write current_stock = newStock
SM_Update(fail) ==
    /\ req.pc = "update"
    /\ IF fail
       THEN /\ req' = [req EXCEPT !.pc = "done", !.result = "error_update"]
            /\ UNCHANGED current_stock
       ELSE /\ current_stock' = [current_stock EXCEPT ![req.item_id] = req.newStock]
            /\ req' = [req EXCEPT !.pc = "done", !.result = "ok"]
    /\ UNCHANGED <<initial_stock, stock_movements, min_stock_threshold, requests>>

createStockMovement ==
    \/ \E i \in Items, q \in QtyChanges : SM_Call(i, q)
    \/ \E fail \in BOOLEAN : SM_Select(fail)
    \/ \E fail \in BOOLEAN : SM_Insert(fail)
    \/ \E fail \in BOOLEAN : SM_Update(fail)

\* --- two createStockMovement requests served at the same time; each
\* client submits one request, and the store calls of the two requests
\* interleave freely

\* movements of one unit in or out
UnitMoves == {0 - 1, 1}

RC_Call(c, i, q) ==
    /\ requests[c].pc = "idle"
    /\ requests' = [requests EXCEPT ![c] =
           [pc |-> "select", item_id |-> i, qty_change |-> q, newStock |-> 0,
            result |-> "none"]]
    /\ UNCHANGED <<current_stock, initial_stock, stock_movements, req,
                   min_stock_threshold>>

\* lines 133-152
RC_Select(c, fail) ==
    /\ requests[c].pc = "select"
    /\ IF fail
       THEN requests' = [requests EXCEPT ![c].pc = "done",
                                         ![c].result = "error_select"]
       ELSE LET currentStock == current_stock[requests[c].item_id]
                newStock == NewStock(currentStock, requests[c].qty_change)
            IN  IF Rejected(newStock)
                THEN requests' = [requests EXCEPT ![c].pc = "done",
                                                  ![c].result = "negative"]
                ELSE requests' = [requests EXCEPT ![c].pc = "insert",
                                                  ![c].newStock = newStock]
    /\ UNCHANGED <<current_stock, initial_stock, stock_movements, req,
                   min_stock_threshold>>

\* lines 154-164
RC_Insert(c, fail) ==
    /\ requests[c].pc = "insert"
    /\ IF fail
       THEN /\ requests' = [requests EXCEPT ![c].pc = "done",
                                            ![c].result = "error_insert"]
            /\ UNCHANGED stock_movements
       ELSE /\ stock_movements' = Append(stock_movements,
                   [item_id |-> requests[c].item_id,
                    qty_change |-> requests[c].qty_change])
            /\ requests' = [requests EXCEPT ![c].pc = "update"]
    /\ UNCHANGED <<current_stock, initial_stock, req, min_stock_threshold>>

\* faulty variant: the update adds the delta to the stock of the row at
\* the time of the write
StockToWriteAtomic(r) == current_stock[r.item_id] + r.qty_change

\* line 169: .update({ current_stock: newStock }), the value computed from
\* the stock read at line 136
StockToWrite(r) == r.newStock

\* lines 166-178
RC_Update(c, fail) ==
    /\ requests[c].pc = "update"
    /\ IF fail
       THEN /\ requests' = [requests EXCEPT ![c].pc = "done",
                                            ![c].result = "error_update"]
            /\ UNCHANGED current_stock
       ELSE /\ current_stock' = [current_stock EXCEPT
                   ![requests[c].item_id] = StockToWrite(requests[c])]
            /\ requests' = [requests EXCEPT ![c].pc = "done",
                                            ![c].result = "ok"]
    /\ UNCHANGED <<initial_stock, stock_movements, req, min_stock_threshold>>

\* --- other writers of the inventory tables

\* Partial<InventoryItem> payloads of updateInventoryItem
InventoryPatches ==
    {[min_stock_threshold |-> t] : t \in 0..MaxThreshold}
        \cup {[current_stock |-> st] : st \in 0..MaxStock}

\* updateInventoryItem (lines 87-105): .update(formData) overwrites the
\* given columns of the row
updateInventoryItem(i, formData, fail) ==
    /\ IF fail
       THEN UNCHANGED <<current_stock, min_stock_threshold>>
       ELSE /\ current_stock' =
                   IF "current_stock" \in DOMAIN formData
                   THEN [current_stock EXCEPT ![i] = formData.current_stock]
                   ELSE current_stock
            /\ min_stock_threshold' =
                   IF "min_stock_threshold" \in DOMAIN formData
                   THEN [min_stock_threshold EXCEPT ![i] =
                            formData.min_stock_threshold]
                   ELSE min_stock_threshold
    /\ UNCHANGED <<initial_stock, stock_movements, req, requests>>

\* handleSave of the item page (app/inventarios/insumos/[id]/page.tsx lines
\* 81-91): the form sends no current_stock
PageSaveItem(i, threshold, fail) ==
    updateInventoryItem(i, [min_stock_threshold |-> threshold], fail)

\* item_compositions: the compound item i2 is made of one unit of i1
Compositions(parent) ==
    IF parent = "i2"
    THEN <<[ingredient_item_id |-> "i1", quantity_needed |-> 1]>>
    ELSE <<>>

\* createCompoundStock (lines 185-226): one movement row per ingredient
\* and one for the compound; current_stock is not written
createCompoundStock(compoundItemId, quantityProduced, fail) ==
    LET compositions == Compositions(compoundItemId)
        usage == [k \in 1..Len(compositions) |->
                    [item_id |-> compositions[k].ingredient_item_id,
                     qty_change |-> 0 - compositions[k].quantity_needed
                                          * quantityProduced]]
        produced == [item_id |-> compoundItemId, qty_change |-> quantityProduced]
    IN  /\ Len(stock_movements) + Len(usage) + 1 <= MaxMovements
        /\ stock_movements' =
               IF fail THEN stock_movements
               ELSE Append(stock_movements \o usage, produced)
        /\ UNCHANGED <<current_stock, initial_stock, req, min_stock_threshold,
                       requests>>

\* ===================================================================
\* Orders: actions/orders.ts and app/comercial/pedidos/[id]/page.tsx
\* ===================================================================
OrderStatuses ==
    {"pending", "planned", "in_production", "completed", "delivered", "cancelled"}

\* items submitted with an order in the order-status specification
OrderInputs ==
    {<<>>, <<[product_id |-> "p1", quantity |-> 1, unit_price_snapshot |-> 1]>>}

\* lines 107-109: items.reduce((sum, item) => sum + quantity * price, 0)
RECURSIVE OrderTotal(_)
OrderTotal(items) ==
    IF items = <<>> THEN 0
    ELSE Head(items).quantity * Head(items).unit_price_snapshot
         + OrderTotal(Tail(items))

PriceLists == {"l1"}
NoList == [exists |-> FALSE, is_active |-> FALSE]

IdlePrices ==
    /\ price_lists = [l \in PriceLists |-> NoList]
    /\ price_list_items = [l \in PriceLists |-> <<>>]

InitOrders ==
    /\ orders = [o \in OrderIds |-> NoOrder]
    /\ order_items = [o \in OrderIds |-> <<>>]
    /\ lastCall = [op |-> "none", id |-> "o1", ok |-> TRUE]
    /\ IdlePrices

\* createOrder (lines 100-148); fail names the store call that fails:
\* the order insert, the items insert, or the items insert and the rollback
createOrder(o, items, fail) ==
    /\ orders[o] = NoOrder
    /\ IF fail = "order"
       THEN UNCHANGED <<orders, order_items>>
       ELSE IF fail = "items"
       THEN UNCHANGED <<orders, order_items>>
       ELSE IF fail = "items_rollback"
       THEN /\ orders' = [orders EXCEPT ![o] =
                   [status |-> "pending", production_day_id |-> NoDay,
                    total_amount |-> OrderTotal(items)]]
            /\ UNCHANGED order_items
       ELSE /\ orders' = [orders EXCEPT ![o] =
                   [status |-> "pending", production_day_id |-> NoDay,
                    total_amount |-> OrderTotal(items)]]
            /\ order_items' = [order_items EXCEPT ![o] = items]
    /\ lastCall' = [op |-> "createOrder", id |-> o, ok |-> (fail = "none")]

\* Partial<Order> payloads of updateOrder
OrderPatches ==
    {[total_amount |-> t] : t \in 0..MaxPatchTotal}
        \cup {[status |-> "cancelled"]}

\* .update(orderData): the given columns are overwritten, the rest kept
ApplyPatch(row, data) ==
    [f \in DOMAIN row |-> IF f \in DOMAIN data THEN data[f] ELSE row[f]]

\* updateOrder (lines 153-171): unconditional update of the row
updateOrder(o, orderData, fail) ==
    /\ IF fail \/ orders[o] = NoOrder
       THEN /\ UNCHANGED orders
            /\ lastCall' = [op |-> "updateOrder", id |-> o, ok |-> FALSE]
       ELSE /\ orders' = [orders EXCEPT ![o] = ApplyPatch(@, orderData)]
            /\ lastCall' = [op |-> "updateOrder", id |-> o, ok |-> TRUE]
    /\ UNCHANGED order_items

\* updateOrderStatus (lines 176-193): the update is unconditional; the store
\* answers an error when no row matches (.single()) or the value is not of
\* the order_status enum
updateOrderStatus(o, status, fail) ==
    /\ IF fail \/ orders[o] = NoOrder \/ status \notin OrderStatuses
       THEN /\ UNCHANGED orders
            /\ lastCall' = [op |-> "updateOrderStatus", id |-> o, ok |-> FALSE]
       ELSE /\ orders' = [orders EXCEPT ![o].status = status]
            /\ lastCall' = [op |-> "updateOrderStatus", id |-> o, ok |-> TRUE]
    /\ UNCHANGED order_items

\* assignOrderToProductionDay (lines 199-220)
assignOrderToProductionDay(o, d, fail) ==
    /\ IF fail \/ orders[o] = NoOrder
       THEN /\ UNCHANGED orders
            /\ lastCall' = [op |-> "assignOrderToProductionDay", id |-> o,
                            ok |-> FALSE]
       ELSE /\ orders' = [orders EXCEPT ![o].production_day_id = d,
                                        ![o].status = "planned"]
            /\ lastCall' = [op |-> "assignOrderToProductionDay", id |-> o,
                            ok |-> TRUE]
    /\ UNCHANGED order_items

\* faulty variant: the status check of deleteOrder is missing
deleteOrderUnchecked(o, fail) ==
    /\ IF orders[o] = NoOrder \/ fail
       THEN /\ UNCHANGED <<orders, order_items>>
            /\ lastCall' = [op |-> "deleteOrder", id |-> o, ok |-> FALSE]
       ELSE /\ orders' = [orders EXCEPT ![o] = NoOrder]
            /\ order_items' = [order_items EXCEPT ![o] = <<>>]
            /\ lastCall' = [op |-> "deleteOrder", id |-> o, ok |-> TRUE]

\* deleteOrder (lines 225-251); order_items rows go with the order
\* (ON DELETE CASCADE)
deleteOrder(o, fail) ==
    /\ IF orders[o].status # "pending"
       THEN /\ UNCHANGED <<orders, order_items>>
            /\ lastCall' = [op |-> "deleteOrder", id |-> o, ok |-> FALSE]
       ELSE IF fail
       THEN /\ UNCHANGED <<orders, order_items>>
            /\ lastCall' = [op |-> "deleteOrder", id |-> o, ok |-> FALSE]
       ELSE /\ orders' = [orders EXCEPT ![o] = NoOrder]
            /\ order_items' = [order_items EXCEPT ![o] = <<>>]
            /\ lastCall' = [op |-> "deleteOrder", id |-> o, ok |-> TRUE]

\* the status buttons the order page shows for a status (page lines 187-241)
PageButtons(status) ==
    CASE status = "pending" -> {"planned", "cancelled"}
      [] status = "planned" -> {"in_production", "pending", "cancelled"}
      [] status = "in_production" -> {"completed"}
      [] status = "completed" -> {"delivered"}
      [] OTHER -> {}

\* handleStatusChange (page lines 57-67) behind a button of the loaded order
PageStatusChange(o, newStatus, fail) ==
    /\ orders[o] # NoOrder
    /\ newStatus \in PageButtons(orders[o].status)
    /\ updateOrderStatus(o, newStatus, fail)

\* handleDelete (page lines 69-79), shown for a pending order (lines 146-151)
PageDelete(o, fail) ==
    /\ orders[o] # NoOrder
    /\ orders[o].status = "pending"
    /\ deleteOrder(o, fail)

\* ===================================================================
\* Planning: actions/planning.ts, consolidateIngredients
\* ===================================================================
RecipeLines == [inventory_item_id : Items, quantity : 1..MaxRecipeQty]

\* a product has zero, one or two product_recipes rows, no two of them for
\* the same item (UNIQUE (product_id, inventory_item_id))
RecipeLists ==
    {<<>>} \cup {<<l>> : l \in RecipeLines}
           \cup {ll \in RecipeLines \X RecipeLines :
                    ll[1].inventory_item_id # ll[2].inventory_item_id}

\* stock levels of the two items when a day is consolidated
StockLevels ==
    {[i \in Items |-> IF i = "i1" THEN a ELSE MaxStock - a] : a \in 0..MaxStock}

BatchRows ==
    [production_day_id : {"d1"}, product_id : Products,
     total_units_in_batch : 1..MaxBatchUnits]

\* production_batches rows: calculateAndCreateBatches only ever appends rows
\* with total_units_in_batch > 0, for whichever orders the day then has
BatchTables ==
    LET own == {<<>>} \cup {<<b>> : b \in BatchRows}
                      \cup {<<b1, b2>> : b1 \in BatchRows, b2 \in BatchRows}
        other == {<<>>, <<[production_day_id |-> "d2", product_id |-> "p1",
                           total_units_in_batch |-> 1]>>}
    IN  {o \o t : o \in other, t \in own}

\* .eq('production_day_id', productionDayId) (line 205)
RECURSIVE SelectBatches(_, _)
SelectBatches(rows, day) ==
    IF rows = <<>> THEN <<>>
    ELSE IF Head(rows).production_day_id = day
         THEN <<Head(rows)>> \o SelectBatches(Tail(rows), day)
         ELSE SelectBatches(Tail(rows), day)

\* a Map in insertion order, as a sequence of its values
MapHas(map, itemId) == \E k \in 1..Len(map) : map[k].item_id = itemId

\* faulty variant: an ingredient already in the map is entered again
AddIngredientTwice(map, itemId, totalNeeded, stock) ==
    Append(map, [item_id |-> itemId, total_needed |-> totalNeeded,
                 current_stock |-> stock[itemId]])

\* lines 228-240: add to the existing entry or create one
AddIngredient(map, itemId, totalNeeded, stock) ==
    IF MapHas(map, itemId)
    THEN [k \in 1..Len(map) |->
             IF map[k].item_id = itemId
             THEN [map[k] EXCEPT !.total_needed = @ + totalNeeded]
             ELSE map[k]]
    ELSE Append(map, [item_id |-> itemId, total_needed |-> totalNeeded,
                      current_stock |-> stock[itemId]])

\* lines 223-241: the recipe lines of one batch
RECURSIVE AddRecipes(_, _, _, _)
AddRecipes(map, recipes, units, stock) ==
    IF recipes = <<>> THEN map
    ELSE LET recipe == Head(recipes)
             totalNeeded == recipe.quantity * units
         IN  AddRecipes(AddIngredient(map, recipe.inventory_item_id, totalNeeded, stock),
                        Tail(recipes), units, stock)

\* lines 220-242: all batches of the day
RECURSIVE IngredientTotals(_, _, _, _)
IngredientTotals(map, rows, recipesOf, stock) ==
    IF rows = <<>> THEN map
    ELSE IngredientTotals(
             AddRecipes(map, recipesOf[Head(rows).product_id],
                        Head(rows).total_units_in_batch, stock),
             Tail(rows), recipesOf, stock)

\* faulty variant: the shortfall is not clamped at zero
WithShortfallUnclamped(item) ==
    [item_id |-> item.item_id, total_needed |-> item.total_needed,
     current_stock |-> item.current_stock,
     missing |-> item.total_needed - item.current_stock,
     has_enough |-> item.current_stock >= item.total_needed]

\* lines 245-249: missing and has_enough of one entry
WithShortfall(item) ==
    [item_id |-> item.item_id, total_needed |-> item.total_needed,
     current_stock |-> item.current_stock,
     missing |-> Max(0, item.total_needed - item.current_stock),
     has_enough |-> item.current_stock >= item.total_needed]

NoResult == [day |-> NoDay, data |-> <<>>, error |-> FALSE]

InitPlan ==
    /\ production_batches \in BatchTables
    /\ product_recipes \in [Products -> RecipeLists]
    /\ consolidated = NoResult
    /\ production_days = [d \in Days |-> "draft"]
    /\ products = [p \in Products |-> 1]
    /\ current_stock \in StockLevels
    /\ initial_stock = current_stock
    /\ stock_movements = <<>>
    /\ req = IdleReq
    /\ min_stock_threshold = [i \in Items |-> 0]
    /\ requests = [c \in Clients |-> IdleReq]

IdlePlan ==
    /\ production_batches = <<>>
    /\ product_recipes = [p \in Products |-> <<>>]
    /\ consolidated = NoResult
    /\ production_days = [d \in Days |-> "none"]
    /\ products = [p \in Products |-> 1]

\* consolidateIngredients (lines 189-252)
consolidateIngredients(day, fail) ==
    /\ IF fail
       THEN consolidated' = [day |-> NoDay, data |-> <<>>, error |-> TRUE]
       ELSE LET rows == SelectBatches(production_batches, day)
                totals == IngredientTotals(<<>>, rows, product_recipes, current_stock)
            IN  consolidated' =
                    [day |-> day,
                     data |-> [k \in 1..Len(totals) |-> WithShortfall(totals[k])],
                     error |-> FALSE]
    /\ UNCHANGED <<production_batches, product_recipes, production_days,
                   products>>

\* ===================================================================
\* Price lists: actions/priceLists.ts
\* ===================================================================
PriceInputs ==
    {<<>>} \cup {<<[product_id |-> "p1", price |-> pr]>> : pr \in 1..MaxPrice}

\* UNIQUE (price_list_id, product_id)
Collides(rows, items) ==
    \E j \in 1..Len(rows), k \in 1..Len(items) :
        rows[j].product_id = items[k].product_id

\* createPriceList (lines 70-111); fail names the store call that fails:
\* the list insert, the items insert, or the items insert and the rollback
createPriceList(l, isActive, items, fail) ==
    /\ ~price_lists[l].exists
    /\ IF fail = "list"
       THEN /\ UNCHANGED <<price_lists, price_list_items>>
            /\ lastCall' = [op |-> "createPriceList", id |-> l, ok |-> FALSE]
       ELSE IF items # <<>> /\ fail = "items"
       THEN /\ UNCHANGED <<price_lists, price_list_items>>
            /\ lastCall' = [op |-> "createPriceList", id |-> l, ok |-> FALSE]
       ELSE IF items # <<>> /\ fail = "items_rollback"
       THEN /\ price_lists' = [price_lists EXCEPT ![l] =
                   [exists |-> TRUE, is_active |-> isActive]]
            /\ UNCHANGED price_list_items
            /\ lastCall' = [op |-> "createPriceList", id |-> l, ok |-> FALSE]
       ELSE /\ price_lists' = [price_lists EXCEPT ![l] =
                   [exists |-> TRUE, is_active |-> isActive]]
            /\ price_list_items' = [price_list_items EXCEPT ![l] = items]
            /\ lastCall' = [op |-> "createPriceList", id |-> l, ok |-> TRUE]
    /\ UNCHANGED <<orders, order_items>>

\* the writes of updatePriceList to the price tables (lines 124-156); fail
\* names the store call that fails: the list update, the delete of the old
\* items (its result is not checked) or the items insert
PriceListWrites(l, isActive, items, fail) ==
    IF fail = "list" \/ ~price_lists[l].exists
    THEN /\ UNCHANGED <<price_lists, price_list_items>>
         /\ lastCall' = [op |-> "updatePriceList", id |-> l, ok |-> FALSE]
    ELSE LET kept == IF fail = "delete" THEN price_list_items[l] ELSE <<>>
             insertFails == items # <<>> /\ (fail = "items" \/ Collides(kept, items))
         IN  /\ price_lists' = [price_lists EXCEPT ![l].is_active = isActive]
             /\ price_list_items' = [price_list_items EXCEPT ![l] =
                    IF insertFails THEN kept ELSE kept \o items]
             /\ lastCall' = [op |-> "updatePriceList", id |-> l,
                             ok |-> ~insertFails]

\* faulty variant: the new prices are copied into the order items of the
\* listed products and the order totals are recomputed
Repriced(rows, items) ==
    [k \in 1..Len(rows) |->
        IF \E j \in 1..Len(items) : items[j].product_id = rows[k].product_id
        THEN [rows[k] EXCEPT !.unit_price_snapshot =
                items[CHOOSE j \in 1..Len(items) :
                        items[j].product_id = rows[k].product_id].price]
        ELSE rows[k]]

updatePriceListRepricing(l, isActive, items, fail) ==
    /\ PriceListWrites(l, isActive, items, fail)
    /\ order_items' = [o \in OrderIds |-> Repriced(order_items[o], items)]
    /\ orders' = [o \in OrderIds |->
           IF orders[o] = NoOrder THEN NoOrder
           ELSE [orders[o] EXCEPT !.total_amount =
                    OrderTotal(Repriced(order_items[o], items))]]

\* updatePriceList (lines 116-161)
updatePriceList(l, isActive, items, fail) ==
    /\ PriceListWrites(l, isActive, items, fail)
    /\ UNCHANGED <<orders, order_items>>

\* togglePriceListStatus (lines 166-181)
togglePriceListStatus(l, isActive, fail) ==
    /\ IF fail
       THEN /\ UNCHANGED price_lists
            /\ lastCall' = [op |-> "togglePriceListStatus", id |-> l, ok |-> FALSE]
       ELSE /\ price_lists' = [price_lists EXCEPT ![l].is_active =
                   IF price_lists[l].exists THEN isActive ELSE @]
            /\ lastCall' = [op |-> "togglePriceListStatus", id |-> l, ok |-> TRUE]
    /\ UNCHANGED <<price_list_items, orders, order_items>>

\* deletePriceList (lines 186-201); the items go with the list
\* (ON DELETE CASCADE)
deletePriceList(l, fail) ==
    /\ IF fail
       THEN /\ UNCHANGED <<price_lists, price_list_items>>
            /\ lastCall' = [op |-> "deletePriceList", id |-> l, ok |-> FALSE]
       ELSE /\ price_lists' = [price_lists EXCEPT ![l] = NoList]
            /\ price_list_items' = [price_list_items EXCEPT ![l] = <<>>]
            /\ lastCall' = [op |-> "deletePriceList", id |-> l, ok |-> TRUE]
    /\ UNCHANGED <<orders, order_items>>

\* ===================================================================
\* Production days and batches: actions/planning.ts, actions/orders.ts
\* ===================================================================

\* products.batch_size_units: INTEGER NOT NULL without CHECK; createProduct
\* and updateProduct store the value of their Partial<Product> payload (the
\* forms send parseInt(input) || 1)
BatchSizes == (0 - MaxNeg)..MaxCap

\* orders of a production day as assignOrderToProductionDay leaves them
PlannedOrder(items) ==
    [status |-> "planned", production_day_id |-> "d1",
     total_amount |-> OrderTotal(items)]

Line(p, q) == [product_id |-> p, quantity |-> q, unit_price_snapshot |-> 1]

DayOrderInputs ==
    {<<Line("p1", 1)>>, <<Line("p1", 2)>>, <<Line("p1", 1), Line("p2", 1)>>}

InitProduction ==
    /\ products \in {[p \in Products |-> IF p = "p1" THEN b ELSE 1] :
                        b \in BatchSizes}
    /\ order_items \in {[o \in OrderIds |-> IF o = "o1" THEN a ELSE b] :
                           a \in DayOrderInputs, b \in {<<>>, <<Line("p1", 1)>>}}
    /\ orders = [o \in OrderIds |->
                    IF order_items[o] = <<>> THEN NoOrder
                    ELSE PlannedOrder(order_items[o])]
    /\ lastCall = [op |-> "none", id |-> "d1", ok |-> TRUE]
    /\ IdlePrices
    /\ production_days = [d \in Days |-> IF d = "d1" THEN "draft" ELSE "none"]
    /\ production_batches = <<>>
    /\ product_recipes = [p \in Products |-> <<>>]
    /\ consolidated = NoResult

\* createProductionDay (lines 81-100): inserts the day with status draft;
\* the insert fails for a date that already has a day (UNIQUE)
createProductionDay(d, fail) ==
    /\ IF fail \/ production_days[d] # "none"
       THEN /\ UNCHANGED production_days
            /\ lastCall' = [op |-> "createProductionDay", id |-> d, ok |-> FALSE]
       ELSE /\ production_days' = [production_days EXCEPT ![d] = "draft"]
            /\ lastCall' = [op |-> "createProductionDay", id |-> d, ok |-> TRUE]
    /\ UNCHANGED <<production_batches, orders, order_items>>

\* publishProductionDay (lines 257-275): unconditional update of the row
publishProductionDay(d, fail) ==
    /\ IF fail \/ production_days[d] = "none"
       THEN /\ UNCHANGED production_days
            /\ lastCall' = [op |-> "publishProductionDay", id |-> d, ok |-> FALSE]
       ELSE /\ production_days' = [production_days EXCEPT ![d] = "published"]
            /\ lastCall' = [op |-> "publishProductionDay", id |-> d, ok |-> TRUE]
    /\ UNCHANGED <<production_batches, orders, order_items>>

\* closeProductionDay (lines 280-297): unconditional update of the row
closeProductionDay(d, fail) ==
    /\ IF fail \/ production_days[d] = "none"
       THEN /\ UNCHANGED production_days
            /\ lastCall' = [op |-> "closeProductionDay", id |-> d, ok |-> FALSE]
       ELSE /\ production_days' = [production_days EXCEPT ![d] = "closed"]
            /\ lastCall' = [op |-> "closeProductionDay", id |-> d, ok |-> TRUE]
    /\ UNCHANGED <<production_batches, orders, order_items>>

\* order items of the orders selected by production_day_id (lines 110-119),
\* in order of the order rows
RECURSIVE DayItems(_, _)
DayItems(os, d) ==
    IF os = <<>> THEN <<>>
    ELSE (IF orders[Head(os)].production_day_id = d
          THEN order_items[Head(os)] ELSE <<>>) \o DayItems(Tail(os), d)

\* one step of the consolidation loop (lines 130-142)
AddQuantity(map, item) ==
    IF \E k \in 1..Len(map) : map[k].product_id = item.product_id
    THEN [k \in 1..Len(map) |->
            IF map[k].product_id = item.product_id
            THEN [map[k] EXCEPT !.total = @ + item.quantity]
            ELSE map[k]]
    ELSE Append(map,
            [product_id |-> item.product_id,
             total |-> item.quantity,
             batch_size |-> IF products[item.product_id] = 0 THEN 1
                            ELSE products[item.product_id]])

RECURSIVE ProductQuantities(_, _)
ProductQuantities(map, items) ==
    IF items = <<>> THEN map
    ELSE ProductQuantities(AddQuantity(map, Head(items)), Tail(items))

\* lines 154-166: one row per batch of calculateBatches
BatchRowsOf(d, data) ==
    LET bs == calculateBatches(data.total, data.batch_size)
    IN  [k \in 1..Len(bs) |->
            [production_day_id |-> d, product_id |-> data.product_id,
             batch_number |-> k, total_units_in_batch |-> bs[k],
             status |-> "pending"]]

RECURSIVE BatchesToCreate(_, _)
BatchesToCreate(d, map) ==
    IF map = <<>> THEN <<>>
    ELSE BatchRowsOf(d, Head(map)) \o BatchesToCreate(d, Tail(map))

\* calculateAndCreateBatches (lines 106-183); fail names the store call
\* that fails: the orders select or the batches insert
calculateAndCreateBatches(d, fail) ==
    LET map == ProductQuantities(<<>>, DayItems(<<"o1", "o2">>, d))
        batchesToCreate == BatchesToCreate(d, map)
    IN  /\ Len(production_batches) + Len(batchesToCreate) <= MaxBatchRows
        /\ IF fail = "orders" \/ (fail = "insert" /\ Len(batchesToCreate) > 0)
           THEN /\ UNCHANGED production_batches
                /\ lastCall' = [op |-> "calculateAndCreateBatches", id |-> d,
                                ok |-> FALSE]
           ELSE /\ production_batches' = production_batches \o batchesToCreate
                /\ lastCall' = [op |-> "calculateAndCreateBatches", id |-> d,
                                ok |-> TRUE]
        /\ UNCHANGED <<production_days, orders, order_items>>

\* startBatch (orders.ts lines 366-386): unconditional update of the row
startBatch(b, fail) ==
    /\ IF fail \/ b > Len(production_batches)
       THEN /\ UNCHANGED production_batches
            /\ lastCall' = [op |-> "startBatch", id |-> b, ok |-> FALSE]
       ELSE /\ production_batches' =
                   [production_batches EXCEPT ![b].status = "in_progress"]
            /\ lastCall' = [op |-> "startBatch", id |-> b, ok |-> TRUE]
    /\ UNCHANGED <<production_days, orders, order_items>>

\* completeBatch (orders.ts lines 391-411): unconditional update of the row
completeBatch(b, fail) ==
    /\ IF fail \/ b > Len(production_batches)
       THEN /\ UNCHANGED production_batches
            /\ lastCall' = [op |-> "completeBatch", id |-> b, ok |-> FALSE]
       ELSE /\ production_batches' =
                   [production_batches EXCEPT ![b].status = "completed"]
            /\ lastCall' = [op |-> "completeBatch", id |-> b, ok |-> TRUE]
    /\ UNCHANGED <<production_days, orders, order_items>>

\* ===================================================================
\* Product forms: app/inventarios/productos/nuevo/page.tsx,
\* app/inventarios/productos/[id]/page.tsx, actions/products.ts
\* ===================================================================
\* values Math.random().toString(36) may return; two calls may return the
\* same one
TempIds == {"t1", "t2"}
NoTempId == "none"
PhaseNames == {"", "Horneado"}

\* faulty variant: the remaining phases keep the sequence order they had
KeepSequenceOrders(list) == list

\* newPhases.map((p, i) => ({ ...p, sequence_order: i + 1 }))
Renumbered(list) ==
    [i \in 1..Len(list) |-> [list[i] EXCEPT !.sequence_order = i]]

\* prev.filter(...): the elements of list whose position is in keep
RECURSIVE Filter(_, _, _)
Filter(list, keep, i) ==
    IF i > Len(list) THEN <<>>
    ELSE (IF i \in keep THEN <<list[i]>> ELSE <<>>) \o Filter(list, keep, i + 1)

\* rows.sort((a, b) => a.sequence_order - b.sequence_order), a stable sort
RECURSIVE SortBySequenceOrder(_)
SortBySequenceOrder(rows) ==
    IF rows = <<>> THEN <<>>
    ELSE LET least == CHOOSE i \in 1..Len(rows) :
                        \A j \in 1..Len(rows) :
                            \/ rows[i].sequence_order < rows[j].sequence_order
                            \/ /\ rows[i].sequence_order = rows[j].sequence_order
                               /\ i <= j
         IN <<rows[least]>> \o
            SortBySequenceOrder(Filter(rows, (1..Len(rows)) \ {least}, 1))

\* the phases the edit page shows for the stored rows
LoadedPhases(rows) ==
    SortBySequenceOrder(
        [i \in 1..Len(rows) |->
            [tempId |-> NoTempId, name |-> rows[i].name,
             sequence_order |-> rows[i].sequence_order]])

\* the payload both forms submit: phases.map(p => ({ name, sequence_order }))
Submitted(list) ==
    [i \in 1..Len(list) |->
        [name |-> list[i].name, sequence_order |-> list[i].sequence_order]]

\* the insert loop of createProduct and updateProduct: one insert per phase,
\* stopped by the first insert that fails (failAt) or that breaks
\* unique_phase_order UNIQUE (product_id, sequence_order)
RECURSIVE InsertPhases(_, _, _, _)
InsertPhases(rows, list, failAt, i) ==
    IF i > Len(list) THEN [rows |-> rows, ok |-> TRUE]
    ELSE IF \/ i = failAt
            \/ \E j \in 1..Len(rows) :
                  rows[j].sequence_order = list[i].sequence_order
         THEN [rows |-> rows, ok |-> FALSE]
         ELSE InsertPhases(Append(rows, list[i]), list, failAt, i + 1)

FailPoints == 1..(MaxPhases + 1)

\* /inventarios/productos/nuevo is opened: useState<ProductionPhase[]>([])
OpenNuevo ==
    /\ formPage = "closed"
    /\ production_phases = <<>>
    /\ formPage' = "nuevo"
    /\ phases' = <<>>
    /\ lastPhaseOp' = [op |-> "open", index |-> 0]
    /\ UNCHANGED production_phases

\* /inventarios/productos/[id] is opened
loadProduct ==
    /\ formPage = "closed"
    /\ formPage' = "editar"
    /\ phases' = LoadedPhases(production_phases)
    /\ lastPhaseOp' = [op |-> "load", index |-> 0]
    /\ UNCHANGED production_phases

\* both forms; only the new-product form gives the phase a tempId
handleAddPhase(phaseName, tempId) ==
    /\ formPage # "closed"
    /\ tempId = NoTempId <=> formPage = "editar"
    /\ Len(phases) < MaxPhases
    /\ IF phaseName = ""
       THEN UNCHANGED <<phases, lastPhaseOp>>
       ELSE /\ phases' = Append(phases,
                    [tempId |-> tempId, name |-> phaseName,
                     sequence_order |-> Len(phases) + 1])
            /\ lastPhaseOp' = [op |-> "add", index |-> Len(phases) + 1]
    /\ UNCHANGED <<production_phases, formPage>>

\* edit form: the phase at a position (0-based in the code, 1-based here)
handleRemovePhase(index) ==
    /\ formPage = "editar"
    /\ index \in 1..Len(phases)
    /\ phases' = Renumbered(Filter(phases, (1..Len(phases)) \ {index}, 1))
    /\ lastPhaseOp' = [op |-> "remove", index |-> index]
    /\ UNCHANGED <<production_phases, formPage>>

\* new-product form: every phase carrying the tempId
handleRemovePhaseByTempId(tempId) ==
    /\ formPage = "nuevo"
    /\ \E i \in 1..Len(phases) : phases[i].tempId = tempId
    /\ phases' = Renumbered(Filter(phases,
                     {i \in 1..Len(phases) : phases[i].tempId # tempId}, 1))
    /\ lastPhaseOp' =
          [op |-> "remove",
           index |-> CHOOSE i \in 1..Len(phases) :
                        /\ phases[i].tempId = tempId
                        /\ \A j \in 1..(i - 1) : phases[j].tempId # tempId]
    /\ UNCHANGED <<production_phases, formPage>>

\* handleSubmit of the new-product form: createProduct inserts the phases
\* one by one; when one insert fails it deletes the product (the phases go
\* with it by ON DELETE CASCADE) without reading the delete's result
createProduct(failAt, rollbackFails) ==
    /\ formPage = "nuevo"
    /\ LET result == InsertPhases(<<>>, Submitted(phases), failAt, 1)
       IN IF result.ok
          THEN /\ production_phases' = result.rows
               /\ formPage' = "closed"
               /\ phases' = <<>>
               /\ lastPhaseOp' = [op |-> "create", index |-> 0]
          ELSE /\ production_phases' =
                      IF rollbackFails THEN result.rows ELSE <<>>
               /\ lastPhaseOp' = [op |-> "create_failed", index |-> failAt]
               /\ UNCHANGED <<formPage, phases>>

\* handleSave of the edit form: updateProduct deletes the stored phases
\* (result not read) and inserts the submitted ones one by one; on success
\* the page calls loadProduct again
updateProduct(deleteFails, failAt) ==
    /\ formPage = "editar"
    /\ LET kept == IF deleteFails THEN production_phases ELSE <<>>
           result == InsertPhases(kept, Submitted(phases), failAt, 1)
       IN /\ production_phases' = result.rows
          /\ IF result.ok
             THEN /\ phases' = LoadedPhases(result.rows)
                  /\ lastPhaseOp' = [op |-> "update", index |-> 0]
             ELSE /\ lastPhaseOp' = [op |-> "update_failed", index |-> failAt]
                  /\ UNCHANGED phases
    /\ UNCHANGED formPage

\* the user leaves the form
ClosePage ==
    /\ formPage # "closed"
    /\ formPage' = "closed"
    /\ phases' = <<>>
    /\ lastPhaseOp' = [op |-> "close", index |-> 0]
    /\ UNCHANGED production_phases

\* ===================================================================
\* Specifications
\* ===================================================================
NextBatches ==
    \/ CallCalculateBatches /\ UNCHANGED <<unitVars, stockVars, orderVars, planVars>>
    \/ CallCalculateBatchCount /\ UNCHANGED <<unitVars, stockVars, orderVars, planVars>>

InitBatches ==
    /\ InitPlanner /\ IdleUnits /\ IdleStock /\ InitOrders /\ IdlePlan

\* the batch planner applied to every input in range
SpecBatches ==
    /\ InitBatches
    /\ [][NextBatches]_vars

NextUnits ==
    \/ CallAreUnitsCompatible /\ UNCHANGED <<plannerVars, stockVars, orderVars, planVars>>
    \/ CallGetCompatibleUnits /\ UNCHANGED <<plannerVars, stockVars, orderVars, planVars>>
    \/ CallConvertUnit /\ UNCHANGED <<plannerVars, stockVars, orderVars, planVars>>
    \/ CallConvertBack /\ UNCHANGED <<plannerVars, stockVars, orderVars, planVars>>
    \/ CallCalculateCost /\ UNCHANGED <<plannerVars, stockVars, orderVars, planVars>>
    \/ CallCalculateRecipeItemCost
          /\ UNCHANGED <<plannerVars, stockVars, orderVars, planVars>>

InitUnitCalls ==
    /\ IdlePlanner /\ InitUnits /\ IdleStock /\ InitOrders /\ IdlePlan

\* the unit helpers applied to every pair of units
SpecUnits ==
    /\ InitUnitCalls
    /\ [][NextUnits]_vars

NextStock ==
    \/ (\E i \in Items, q \in QtyChanges : SM_Call(i, q))
          /\ UNCHANGED <<plannerVars, unitVars, orderVars, planVars>>
    \/ (\E fail \in BOOLEAN : SM_Select(fail))
          /\ UNCHANGED <<plannerVars, unitVars, orderVars, planVars>>
    \/ (\E fail \in BOOLEAN : SM_Insert(fail))
          /\ UNCHANGED <<plannerVars, unitVars, orderVars, planVars>>
    \/ (\E fail \in BOOLEAN : SM_Update(fail))
          /\ UNCHANGED <<plannerVars, unitVars, orderVars, planVars>>

InitLedger ==
    /\ IdlePlanner /\ IdleUnits /\ InitStock /\ InitOrders /\ IdlePlan

\* stock movements handled one request at a time
SpecStock ==
    /\ InitLedger
    /\ [][NextStock]_vars

NextOrderDesk ==
    \/ (\E o \in OrderIds, items \in OrderInputs,
            fail \in {"none", "order", "items", "items_rollback"} :
            createOrder(o, items, fail))
          /\ UNCHANGED <<plannerVars, unitVars, stockVars, planVars, priceVars>>
    \/ (\E o \in OrderIds, orderData \in OrderPatches, fail \in BOOLEAN :
            updateOrder(o, orderData, fail))
          /\ UNCHANGED <<plannerVars, unitVars, stockVars, planVars, priceVars>>
    \/ (\E o \in OrderIds, st \in OrderStatuses \cup {"invalid"}, fail \in BOOLEAN :
            updateOrderStatus(o, st, fail))
          /\ UNCHANGED <<plannerVars, unitVars, stockVars, planVars, priceVars>>
    \/ (\E o \in OrderIds, d \in Days, fail \in BOOLEAN :
            assignOrderToProductionDay(o, d, fail))
          /\ UNCHANGED <<plannerVars, unitVars, stockVars, planVars, priceVars>>
    \/ (\E o \in OrderIds, fail \in BOOLEAN : deleteOrder(o, fail))
          /\ UNCHANGED <<plannerVars, unitVars, stockVars, planVars, priceVars>>
    \/ (\E o \in OrderIds, st \in OrderStatuses, fail \in BOOLEAN :
            PageStatusChange(o, st, fail))
          /\ UNCHANGED <<plannerVars, unitVars, stockVars, planVars, priceVars>>
    \/ (\E o \in OrderIds, fail \in BOOLEAN : PageDelete(o, fail))
          /\ UNCHANGED <<plannerVars, unitVars, stockVars, planVars, priceVars>>

InitOrderDesk ==
    /\ IdlePlanner /\ IdleUnits /\ IdleStock /\ InitOrders /\ IdlePlan

\* the order actions and the order page
SpecOrders ==
    /\ InitOrderDesk
    /\ [][NextOrderDesk]_vars

NextConsolidate ==
    /\ \E d \in Days, fail \in BOOLEAN : consolidateIngredients(d, fail)
    /\ UNCHANGED <<plannerVars, unitVars, stockVars, orderVars>>

InitConsolidate ==
    /\ IdlePlanner /\ IdleUnits /\ InitOrders /\ InitPlan

\* ingredient consolidation over the stored batches, recipes and stock
SpecConsolidate ==
    /\ InitConsolidate
    /\ [][NextConsolidate]_vars

NextProduction ==
    \/ \E d \in Days, fail \in BOOLEAN :
          /\ createProductionDay(d, fail)
          /\ UNCHANGED <<plannerVars, unitVars, stockVars, product_recipes,
                         consolidated, products, priceVars>>
    \/ \E d \in Days, fail \in BOOLEAN :
          /\ publishProductionDay(d, fail)
          /\ UNCHANGED <<plannerVars, unitVars, stockVars, product_recipes,
                         consolidated, products, priceVars>>
    \/ \E d \in Days, fail \in BOOLEAN :
          /\ closeProductionDay(d, fail)
          /\ UNCHANGED <<plannerVars, unitVars, stockVars, product_recipes,
                         consolidated, products, priceVars>>
    \/ \E d \in Days, fail \in {"none", "orders", "insert"} :
          /\ calculateAndCreateBatches(d, fail)
          /\ UNCHANGED <<plannerVars, unitVars, stockVars, product_recipes,
                         consolidated, products, priceVars>>
    \/ \E b \in 1..MaxBatchRows, fail \in BOOLEAN :
          /\ startBatch(b, fail)
          /\ UNCHANGED <<plannerVars, unitVars, stockVars, product_recipes,
                         consolidated, products, priceVars>>
    \/ \E b \in 1..MaxBatchRows, fail \in BOOLEAN :
          /\ completeBatch(b, fail)
          /\ UNCHANGED <<plannerVars, unitVars, stockVars, product_recipes,
                         consolidated, products, priceVars>>

InitProductionFloor ==
    /\ IdlePlanner /\ IdleUnits /\ IdleStock /\ InitProduction

\* production days, batch creation and batch execution over the orders of
\* a day
SpecProduction ==
    /\ InitProductionFloor
    /\ [][NextProduction]_vars

NextPriceDesk ==
    \/ (\E o \in OrderIds, items \in OrderInputs,
            fail \in {"none", "order", "items", "items_rollback"} :
            createOrder(o, items, fail))
          /\ UNCHANGED <<plannerVars, unitVars, stockVars, planVars, priceVars>>
    \/ (\E l \in PriceLists, isActive \in BOOLEAN, items \in PriceInputs,
            fail \in {"none", "list", "items", "items_rollback"} :
            createPriceList(l, isActive, items, fail))
          /\ UNCHANGED <<plannerVars, unitVars, stockVars, planVars>>
    \/ (\E l \in PriceLists, isActive \in BOOLEAN, items \in PriceInputs,
            fail \in {"none", "list", "delete", "items"} :
            updatePriceList(l, isActive, items, fail))
          /\ UNCHANGED <<plannerVars, unitVars, stockVars, planVars>>
    \/ (\E l \in PriceLists, isActive \in BOOLEAN, fail \in BOOLEAN :
            togglePriceListStatus(l, isActive, fail))
          /\ UNCHANGED <<plannerVars, unitVars, stockVars, planVars>>
    \/ (\E l \in PriceLists, fail \in BOOLEAN : deletePriceList(l, fail))
          /\ UNCHANGED <<plannerVars, unitVars, stockVars, planVars>>

InitPriceDesk ==
    /\ IdlePlanner /\ IdleUnits /\ IdleStock /\ InitOrders /\ IdlePlan

\* orders taken while price lists are created, edited, toggled and deleted
SpecPriceLists ==
    /\ InitPriceDesk
    /\ [][NextPriceDesk]_vars

NextInventory ==
    \/ (\E i \in Items, q \in UnitMoves : SM_Call(i, q))
          /\ UNCHANGED <<plannerVars, unitVars, orderVars, planVars>>
    \/ (\E fail \in BOOLEAN : SM_Select(fail))
          /\ UNCHANGED <<plannerVars, unitVars, orderVars, planVars>>
    \/ (\E fail \in BOOLEAN : SM_Insert(fail))
          /\ UNCHANGED <<plannerVars, unitVars, orderVars, planVars>>
    \/ (\E fail \in BOOLEAN : SM_Update(fail))
          /\ UNCHANGED <<plannerVars, unitVars, orderVars, planVars>>
    \/ (\E i \in Items, t \in 0..MaxThreshold, fail \in BOOLEAN :
            PageSaveItem(i, t, fail))
          /\ UNCHANGED <<plannerVars, unitVars, orderVars, planVars>>
    \/ (\E i \in Items, formData \in InventoryPatches, fail \in BOOLEAN :
            updateInventoryItem(i, formData, fail))
          /\ UNCHANGED <<plannerVars, unitVars, orderVars, planVars>>
    \/ (\E i \in Items, fail \in BOOLEAN : createCompoundStock(i, 1, fail))
          /\ UNCHANGED <<plannerVars, unitVars, orderVars, planVars>>

InitInventory ==
    /\ IdlePlanner /\ IdleUnits /\ InitStock /\ InitOrders /\ IdlePlan

\* every server action that writes inventory_items or stock_movements
SpecInventory ==
    /\ InitInventory
    /\ [][NextInventory]_vars

NextMargin ==
    \/ CallCalculateMargin
          /\ UNCHANGED <<totalUnits, batchSize, batches, batchCount, bdone,
                         phaseVars, unitVars, stockVars, orderVars, planVars>>
    \/ CallHandlePriceChange
          /\ UNCHANGED <<totalUnits, batchSize, batches, batchCount, bdone,
                         phaseVars, unitVars, stockVars, orderVars, planVars>>
    \/ CallLoadData
          /\ UNCHANGED <<totalUnits, batchSize, batches, batchCount, bdone,
                         phaseVars, unitVars, stockVars, orderVars, planVars>>

InitMarginCalls ==
    /\ totalUnits = 0 /\ batchSize = 0 /\ batches = <<>> /\ batchCount = 0
    /\ bdone = {}
    /\ IdlePhases
    /\ InitMargin /\ IdleUnits /\ IdleStock /\ InitOrders /\ IdlePlan

\* the margin helper and the margin of a price-list row, for every price
\* and cost
SpecMargin ==
    /\ InitMarginCalls
    /\ [][NextMargin]_vars

NextRace ==
    \/ (\E c \in Clients, i \in Items, q \in UnitMoves : RC_Call(c, i, q))
          /\ UNCHANGED <<plannerVars, unitVars, orderVars, planVars>>
    \/ (\E c \in Clients, fail \in BOOLEAN : RC_Select(c, fail))
          /\ UNCHANGED <<plannerVars, unitVars, orderVars, planVars>>
    \/ (\E c \in Clients, fail \in BOOLEAN : RC_Insert(c, fail))
          /\ UNCHANGED <<plannerVars, unitVars, orderVars, planVars>>
    \/ (\E c \in Clients, fail \in BOOLEAN : RC_Update(c, fail))
          /\ UNCHANGED <<plannerVars, unitVars, orderVars, planVars>>

InitRace ==
    /\ IdlePlanner /\ IdleUnits /\ InitStock /\ InitOrders /\ IdlePlan

\* two createStockMovement requests whose store calls interleave
SpecRace ==
    /\ InitRace
    /\ [][NextRace]_vars

Spec == SpecStock

\* ===================================================================
\* Properties
\* ===================================================================

\* C1: for totalUnits >= 0 and batchSize > 0 the batches returned by
\* calculateBatches sum to totalUnits, every batch is > 0, and every batch
\* but possibly the last equals batchSize (the last is not rounded up).
C1_BatchPartition ==
    ("batches" \in bdone /\ totalUnits >= 0 /\ batchSize > 0) =>
        /\ SumSeq(batches) = totalUnits
        /\ \A k \in 1..Len(batches) : batches[k] > 0
        /\ \A k \in 1..(Len(batches) - 1) : batches[k] = batchSize

\* C1 witness: a plan of several batches whose last batch is partial
C1_Witness ==
    /\ "batches" \in bdone
    /\ Len(batches) >= 3
    /\ batches[Len(batches)] < batchSize

\* C2: a movement that would make the stock negative ends in an error with
\* no stock_movements row written and current_stock left as it was.
C2_RejectNegative ==
    [][(req.pc = "select" /\ current_stock[req.item_id] + req.qty_change < 0) =>
          /\ req'.pc = "done"
          /\ req'.result \in {"negative", "error_select"}
          /\ stock_movements' = stock_movements
          /\ current_stock' = current_stock]_vars

\* C2 witness: a withdrawal larger than the stock has been rejected
C2_Witness ==
    /\ req.pc = "done"
    /\ req.result = "negative"
    /\ current_stock[req.item_id] > 0
    /\ current_stock[req.item_id] + req.qty_change < 0
    /\ stock_movements = <<>>

\* C3: with movements applied one request at a time to items whose stock
\* starts >= 0, current_stock is >= 0 in every reachable state.
C3_StockNonNegative == \A i \in Items : current_stock[i] >= 0

\* C3 witness: an accepted withdrawal has emptied an item's stock
C3_Witness ==
    /\ req.pc = "done"
    /\ req.result = "ok"
    /\ req.qty_change < 0
    /\ current_stock[req.item_id] = 0

\* C4: whenever no request is in flight, each item's current_stock equals
\* its initial stock plus the qty_change of its persisted movements, also
\* after a store failure at a step of createStockMovement.
C4_LedgerInSync ==
    req.pc \in {"idle", "done"} =>
        \A i \in Items :
            current_stock[i] = initial_stock[i] + LedgerSum(stock_movements, i)

LifecycleEdges ==
    {<<"pending", "planned">>, <<"planned", "in_production">>,
     <<"in_production", "completed">>, <<"completed", "delivered">>,
     <<"pending", "cancelled">>, <<"planned", "cancelled">>}

\* C5: every change of a stored order's status is one of the six edges of
\* the order lifecycle.
C5_OnlyLifecycleEdges ==
    [][\A o \in OrderIds :
          (orders[o] # NoOrder /\ orders'[o] # NoOrder
             /\ orders'[o].status # orders[o].status)
          => <<orders[o].status, orders'[o].status>> \in LifecycleEdges]_vars

\* C6: deleteOrder removes the order only when its status is pending; for
\* any other status or a missing order it answers success = false and the
\* stored orders and their items stay as they were.
C6_DeleteOnlyPending ==
    [][\A o \in OrderIds :
          (lastCall'.op = "deleteOrder" /\ lastCall'.id = o) =>
              IF orders[o].status = "pending"
              THEN IF lastCall'.ok
                   THEN orders' = [orders EXCEPT ![o] = NoOrder]
                   ELSE orders' = orders /\ order_items' = order_items
              ELSE /\ ~lastCall'.ok
                   /\ orders' = orders
                   /\ order_items' = order_items]_vars

\* C6 witness: deleteOrder has refused a planned order, which is still stored
C6_Witness ==
    /\ lastCall.op = "deleteOrder"
    /\ ~lastCall.ok
    /\ orders[lastCall.id].status = "planned"

\* sum of the quantities of the recipe lines that use item i
RECURSIVE LineSum(_, _)
LineSum(recipes, i) ==
    IF recipes = <<>> THEN 0
    ELSE (IF Head(recipes).inventory_item_id = i THEN Head(recipes).quantity ELSE 0)
         + LineSum(Tail(recipes), i)

\* demand of item i over the batches stored for a day
RECURSIVE DayDemand(_, _, _)
DayDemand(rows, day, i) ==
    IF rows = <<>> THEN 0
    ELSE (IF Head(rows).production_day_id = day
          THEN LineSum(product_recipes[Head(rows).product_id], i)
               * Head(rows).total_units_in_batch
          ELSE 0)
         + DayDemand(Tail(rows), day, i)

\* items used by the recipe of some batch stored for a day
UsedItems(day) ==
    {i \in Items :
        \E k \in 1..Len(production_batches) :
            /\ production_batches[k].production_day_id = day
            /\ \E j \in 1..Len(product_recipes[production_batches[k].product_id]) :
                   product_recipes[production_batches[k].product_id][j].inventory_item_id = i}

\* C7: consolidateIngredients returns one record per distinct ingredient of
\* the day's batches, whose total_needed is the sum over all batches and
\* recipe lines using it of quantity x total_units_in_batch.
C7_OneRecordPerIngredient ==
    (consolidated.day \in Days /\ ~consolidated.error) =>
        LET data == consolidated.data IN
        /\ \A k, l \in 1..Len(data) : data[k].item_id = data[l].item_id => k = l
        /\ {data[k].item_id : k \in 1..Len(data)} = UsedItems(consolidated.day)
        /\ \A k \in 1..Len(data) :
               data[k].total_needed =
                   DayDemand(production_batches, consolidated.day, data[k].item_id)

\* C7 witness: two batches of different products both use one ingredient,
\* which is reported once
C7_Witness ==
    /\ consolidated.day = "d1"
    /\ ~consolidated.error
    /\ \E k, l \in 1..Len(production_batches) :
          /\ production_batches[k].production_day_id = "d1"
          /\ production_batches[l].production_day_id = "d1"
          /\ production_batches[k].product_id = "p1"
          /\ production_batches[l].product_id = "p2"
    /\ LineSum(product_recipes["p1"], "i1") > 0
    /\ LineSum(product_recipes["p2"], "i1") > 0
    /\ Len(consolidated.data) = 1

\* C8: in every record returned by consolidateIngredients
\* missing = max(0, total_needed - current_stock) and
\* has_enough = (current_stock >= total_needed), so has_enough holds exactly
\* when missing = 0.
C8_Shortfall ==
    (consolidated.day \in Days /\ ~consolidated.error) =>
        \A k \in 1..Len(consolidated.data) :
            LET r == consolidated.data[k]
                stock == current_stock[r.item_id]
            IN  /\ r.current_stock = stock
                /\ r.missing = Max(0, r.total_needed - stock)
                /\ r.has_enough = (stock >= r.total_needed)
                /\ r.has_enough <=> (r.missing = 0)

\* C8 witness: one ingredient is short and another has stock to spare
C8_Witness ==
    /\ consolidated.day = "d1"
    /\ ~consolidated.error
    /\ \E k, l \in 1..Len(consolidated.data) :
          /\ consolidated.data[k].missing > 0
          /\ consolidated.data[l].current_stock > consolidated.data[l].total_needed

\* C9: calculateBatches returns the empty list and calculateBatchCount 0
\* whenever totalUnits <= 0 or batchSize <= 0.
C9_EmptyOnNonPositive ==
    (totalUnits <= 0 \/ batchSize <= 0) =>
        /\ "batches" \in bdone => batches = <<>>
        /\ "count" \in bdone => batchCount = 0

\* C9 witness: both functions were called with a positive total and a
\* capacity of zero
C9_Witness ==
    /\ bdone = {"batches", "count"}
    /\ totalUnits > 0
    /\ batchSize = 0

\* the dimension group of a unit: weight, volume, or the piece unit itself
DimensionGroup(u) ==
    IF u \in {"kg", "g", "mg"} THEN "weight"
    ELSE IF u \in {"L", "ml"} THEN "volume"
    ELSE u

\* C10: areUnitsCompatible(a, b) holds exactly when a and b are of the same
\* dimension group, a piece unit forming a group of its own.
C10_CompatibleIffSameGroup ==
    "compatible" \in udone =>
        (compatible <=> (DimensionGroup(unit1) = DimensionGroup(unit2)))

\* both units are weight units, or both are volume units
BothWeightOrBothVolume(a, b) ==
    \/ (a \in {"kg", "g", "mg"} /\ b \in {"kg", "g", "mg"})
    \/ (a \in {"L", "ml"} /\ b \in {"L", "ml"})

\* C11: convertUnit(q, from, to) returns q unchanged when from = to, piece
\* units included, and returns null whenever from # to and the two units are
\* not both weight units or both volume units.
C11_IdentityOrNull ==
    "convert" \in udone =>
        /\ (unit1 = unit2 =>
               converted = [isNull |-> FALSE, num |-> quantity, den |-> 1])
        /\ ((unit1 # unit2 /\ ~BothWeightOrBothVolume(unit1, unit2)) =>
               converted.isNull)

C11_Witness ==
    /\ "convert" \in udone
    /\ unit1 = "pz" /\ unit2 = "caja" /\ quantity = 2
    /\ converted.isNull

\* C12: for compatible units a, b and every quantity q, converting q from a
\* to b and then back from b to a yields q, in exact arithmetic.
C12_RoundTrip ==
    ("back" \in udone /\ BothWeightOrBothVolume(unit1, unit2)) =>
        roundTrip = [isNull |-> FALSE, num |-> quantity, den |-> 1]

C12_Witness ==
    /\ "back" \in udone
    /\ unit1 = "mg" /\ unit2 = "kg" /\ quantity = 3
    /\ converted = [isNull |-> FALSE, num |-> 3, den |-> 1000000]
    /\ roundTrip = [isNull |-> FALSE, num |-> 3, den |-> 1]

DayEdges ==
    {<<"none", "draft">>, <<"draft", "published">>, <<"published", "closed">>}

\* C13: a production day is created as draft and its status only moves
\* draft -> published -> closed; no call moves it backward or skips
\* published.
C13_DayStatusForwardOnly ==
    [][\A d \in Days :
          production_days'[d] # production_days[d] =>
              <<production_days[d], production_days'[d]>> \in DayEdges]_vars

BatchEdges == {<<"pending", "in_progress">>, <<"in_progress", "completed">>}

\* C14: a batch is created with status pending and its status only moves
\* pending -> in_progress -> completed.
C14_BatchStatusForwardOnly ==
    [][/\ \A b \in 1..Len(production_batches') :
             IF b <= Len(production_batches)
             THEN production_batches'[b].status # production_batches[b].status =>
                      <<production_batches[b].status,
                        production_batches'[b].status>> \in BatchEdges
             ELSE production_batches'[b].status = "pending"]_vars

\* units of product p ordered for day d over all orders of the day
RECURSIVE UnitsOf(_, _)
UnitsOf(items, p) ==
    IF items = <<>> THEN 0
    ELSE (IF Head(items).product_id = p THEN Head(items).quantity ELSE 0)
         + UnitsOf(Tail(items), p)

OrderedUnits(d, p) ==
    (IF orders["o1"].production_day_id = d THEN UnitsOf(order_items["o1"], p) ELSE 0)
    + (IF orders["o2"].production_day_id = d THEN UnitsOf(order_items["o2"], p) ELSE 0)

\* units of product p in the batch rows of day d
RECURSIVE BatchUnits(_, _, _)
BatchUnits(rows, d, p) ==
    IF rows = <<>> THEN 0
    ELSE (IF Head(rows).production_day_id = d /\ Head(rows).product_id = p
          THEN Head(rows).total_units_in_batch ELSE 0)
         + BatchUnits(Tail(rows), d, p)

\* C19: after calculateAndCreateBatches succeeds on a day without batches,
\* for every product ordered for the day the units of the created batches
\* sum to the units ordered over all orders of the day.
C19_BatchesCoverDemand ==
    [][\A d \in Days :
          (/\ lastCall'.op = "calculateAndCreateBatches"
           /\ lastCall'.id = d
           /\ lastCall'.ok
           /\ SelectBatches(production_batches, d) = <<>>) =>
              \A p \in Products :
                  OrderedUnits(d, p) > 0 =>
                      BatchUnits(production_batches', d, p) = OrderedUnits(d, p)]_vars

\* C15: in every reachable state each order's total_amount equals the sum
\* over its persisted order items of quantity x unit_price_snapshot.
C15_TotalIsSumOfItems ==
    \A o \in OrderIds :
        orders[o] # NoOrder =>
            orders[o].total_amount = OrderTotal(order_items[o])

PriceListOps ==
    {"createPriceList", "updatePriceList", "togglePriceListStatus",
     "deletePriceList"}

\* C16: a price-list operation leaves the unit_price_snapshot of every
\* existing order item and the total_amount of its order unchanged.
C16_SnapshotsFrozen ==
    [][lastCall'.op \in PriceListOps =>
          \A o \in OrderIds :
              orders[o] # NoOrder =>
                  /\ orders'[o] # NoOrder
                  /\ orders'[o].total_amount = orders[o].total_amount
                  /\ Len(order_items'[o]) = Len(order_items[o])
                  /\ \A k \in 1..Len(order_items[o]) :
                         order_items'[o][k].unit_price_snapshot
                             = order_items[o][k].unit_price_snapshot]_vars

C16_Witness ==
    /\ lastCall = [op |-> "updatePriceList", id |-> "l1", ok |-> TRUE]
    /\ price_list_items["l1"] = <<[product_id |-> "p1", price |-> 2]>>
    /\ orders["o1"] # NoOrder
    /\ orders["o1"].total_amount = 1
    /\ order_items["o1"] =
           <<[product_id |-> "p1", quantity |-> 1, unit_price_snapshot |-> 1]>>

\* C17: current_stock changes only as the effect of an applied stock
\* movement: every change is the update step of createStockMovement for
\* that item, and a persisted stock_movements row carries the change.
C17_StockOnlyViaMovements ==
    [][\A i \in Items :
          current_stock'[i] # current_stock[i] =>
              /\ req.pc = "update"
              /\ req.item_id = i
              /\ \E k \in 1..Len(stock_movements') :
                     /\ stock_movements'[k].item_id = i
                     /\ stock_movements'[k].qty_change
                            = current_stock'[i] - current_stock[i]]_vars

\* markup over cost: (price - cost) / cost x 100, and 0 when cost <= 0
Markup(price, c) ==
    IF c > 0
    THEN LET n == (price - c) * 100
             g == Gcd(n, c)
         IN  [isNull |-> FALSE, num |-> n \div g, den |-> c \div g]
    ELSE [isNull |-> FALSE, num |-> 0, den |-> 1]

\* C18: calculateMargin(price, cost) is the markup over cost, 0 when
\* cost <= 0, and the price-list pages show the same value (rounded to two
\* decimals) for every row, rows of cost 0 included.
C18_MarginIsMarkupOverCost ==
    /\ "margin" \in mdone => margin = Markup(sellingPrice, cost)
    /\ "row" \in mdone => rowMargin = Round2(Markup(sellingPrice, cost))
    /\ "loaded" \in mdone => loadedMargin = Round2(Markup(sellingPrice, cost))

\* both requests succeeded on the same item and both read the stock the
\* item had before either of them wrote
BothReadBeforeEitherWrote(i) ==
    \A c \in Clients :
        /\ requests[c].pc = "done"
        /\ requests[c].result = "ok"
        /\ requests[c].item_id = i
        /\ requests[c].newStock - requests[c].qty_change = initial_stock[i]

\* C20: when two createStockMovement requests for the same item both read
\* current_stock before either writes, both movements are persisted but
\* the final current_stock reflects only one of the two deltas.
C20_LostUpdate ==
    \A i \in Items :
        BothReadBeforeEitherWrote(i) =>
            /\ Len(stock_movements) = 2
            /\ \A k \in 1..2 : stock_movements[k].item_id = i
            /\ LedgerSum(stock_movements, i)
                   = requests["c1"].qty_change + requests["c2"].qty_change
            /\ \E c \in Clients :
                   current_stock[i] = initial_stock[i] + requests[c].qty_change
            /\ current_stock[i] # initial_stock[i] + LedgerSum(stock_movements, i)

C20_Witness ==
    /\ BothReadBeforeEitherWrote("i1")
    /\ requests["c1"].qty_change = 1
    /\ requests["c2"].qty_change = 1
    /\ initial_stock["i1"] = 0
    /\ current_stock["i1"] = 1
    /\ LedgerSum(stock_movements, "i1") = 2

\* C21: under every interleaving of concurrent createStockMovement
\* requests on one item, the stock derived from the ledger (initial stock
\* plus the persisted qty_change) is never negative: two withdrawals that
\* fit one by one but not together are never both accepted.
C21_NoOverdraw ==
    \A i \in Items :
        (\A c \in Clients :
            /\ requests[c].pc = "done"
            /\ requests[c].result = "ok"
            /\ requests[c].item_id = i) =>
            initial_stock[i] + LedgerSum(stock_movements, i) >= 0

\* the change of item i's stock that createCompoundStock(parent, n) is to
\* apply: -quantity_needed x n for an ingredient, +n for the compound
RECURSIVE CompoundDelta(_, _, _, _)
CompoundDelta(comps, parent, n, i) ==
    IF comps = <<>> THEN (IF i = parent THEN n ELSE 0)
    ELSE (IF Head(comps).ingredient_item_id = i
          THEN 0 - Head(comps).quantity_needed * n ELSE 0)
         + CompoundDelta(Tail(comps), parent, n, i)

\* C22: after createCompoundStock(compound, n) returns success, the
\* current_stock of each ingredient has gone down by quantity_needed x n
\* and that of the compound item up by n. (The step is the one that grows
\* the ledger without a createStockMovement request in its insert step;
\* its last row names the compound and n.)
C22_CompoundStockApplied ==
    [][(Len(stock_movements') > Len(stock_movements) /\ req' = req) =>
          LET produced == stock_movements'[Len(stock_movements')]
          IN  \A i \in Items :
                  current_stock'[i] = current_stock[i]
                      + CompoundDelta(Compositions(produced.item_id),
                                      produced.item_id, produced.qty_change, i)]_vars

\* C23: planning a product whose batch_size_units is <= 0 creates no
\* production_batches rows for it; no other capacity is substituted.
C23_NoBatchesForInvalidCapacity ==
    [][\A d \in Days :
          (/\ lastCall'.op = "calculateAndCreateBatches"
           /\ lastCall'.id = d
           /\ lastCall'.ok
           /\ SelectBatches(production_batches, d) = <<>>) =>
              \A p \in Products :
                  products[p] <= 0 =>
                      \A k \in 1..Len(production_batches') :
                          ~(/\ production_batches'[k].production_day_id = d
                            /\ production_batches'[k].product_id = p)]_vars

\* the least n with n x b >= t, for t > 0 and b > 0
Ceiling(t, b) == CHOOSE n \in 1..t : n * b >= t /\ (n - 1) * b < t

\* C24: for totalUnits > 0 and batchSize > 0 the number of batches of
\* calculateBatches equals calculateBatchCount = ceil(totalUnits / batchSize)
\* and the last batch equals totalUnits - batchSize x (count - 1).
C24_CountAndLastBatch ==
    (bdone = {"batches", "count"} /\ totalUnits > 0 /\ batchSize > 0) =>
        /\ Len(batches) = batchCount
        /\ batchCount = Ceiling(totalUnits, batchSize)
        /\ batches[Len(batches)] = totalUnits - batchSize * (batchCount - 1)

C24_Witness ==
    /\ bdone = {"batches", "count"}
    /\ totalUnits = 7 /\ batchSize = 3
    /\ batchCount = 3
    /\ batches = <<3, 3, 1>>

\* the size of a unit in the smallest unit of its dimension (mg, ml, or
\* the piece unit itself)
InSmallest(u) ==
    CASE u = "kg" -> 1000000
      [] u = "g" -> 1000
      [] u = "L" -> 1000
      [] OTHER -> 1

\* quantity q in unit u, priced at c per unit of pu of the same group
ExpectedCost(q, u, c, pu) ==
    LET n == q * InSmallest(u) * c
        g == Gcd(n, InSmallest(pu))
    IN  [isNull |-> FALSE, num |-> n \div g, den |-> InSmallest(pu) \div g]

\* C25: the cost of a recipe line is its quantity expressed in the
\* purchase unit times the cost per purchase unit; calculateCost(q, u, c, u)
\* is q x c for every unit u, piece units included, and the result is null
\* only for units of different dimension groups.
C25_LineCost ==
    "cost" \in udone =>
        IF DimensionGroup(unit1) = DimensionGroup(unit2)
        THEN lineCost = ExpectedCost(quantity, unit1, purchaseCost, unit2)
        ELSE lineCost.isNull

\* C26: when createOrder fails, no order record created by that call
\* remains in the store: an order header without its items is never left
\* behind by a failed createOrder.
C26_FailedCreateLeavesNoOrder ==
    [][(lastCall'.op = "createOrder" /\ ~lastCall'.ok) =>
          /\ orders'[lastCall'.id] = NoOrder
          /\ order_items'[lastCall'.id] = <<>>]_vars

NextPhases ==
    \/ OpenNuevo
          /\ UNCHANGED <<totalUnits, batchSize, batches, batchCount, bdone,
                         marginVars, unitVars, stockVars, orderVars, planVars>>
    \/ loadProduct
          /\ UNCHANGED <<totalUnits, batchSize, batches, batchCount, bdone,
                         marginVars, unitVars, stockVars, orderVars, planVars>>
    \/ (\E phaseName \in PhaseNames, tempId \in TempIds \cup {NoTempId} :
            handleAddPhase(phaseName, tempId))
          /\ UNCHANGED <<totalUnits, batchSize, batches, batchCount, bdone,
                         marginVars, unitVars, stockVars, orderVars, planVars>>
    \/ (\E index \in 1..MaxPhases : handleRemovePhase(index))
          /\ UNCHANGED <<totalUnits, batchSize, batches, batchCount, bdone,
                         marginVars, unitVars, stockVars, orderVars, planVars>>
    \/ (\E tempId \in TempIds : handleRemovePhaseByTempId(tempId))
          /\ UNCHANGED <<totalUnits, batchSize, batches, batchCount, bdone,
                         marginVars, unitVars, stockVars, orderVars, planVars>>
    \/ (\E failAt \in FailPoints, rollbackFails \in BOOLEAN :
            createProduct(failAt, rollbackFails))
          /\ UNCHANGED <<totalUnits, batchSize, batches, batchCount, bdone,
                         marginVars, unitVars, stockVars, orderVars, planVars>>
    \/ (\E deleteFails \in BOOLEAN, failAt \in FailPoints :
            updateProduct(deleteFails, failAt))
          /\ UNCHANGED <<totalUnits, batchSize, batches, batchCount, bdone,
                         marginVars, unitVars, stockVars, orderVars, planVars>>
    \/ ClosePage
          /\ UNCHANGED <<totalUnits, batchSize, batches, batchCount, bdone,
                         marginVars, unitVars, stockVars, orderVars, planVars>>

InitPhaseForms ==
    /\ IdlePlanner /\ IdleUnits /\ IdleStock /\ InitOrders /\ IdlePlan

\* the two product forms over one product's stored phases, with store
\* failures
SpecPhases ==
    /\ InitPhaseForms
    /\ [][NextPhases]_vars

\* C27: after any sequence of add-phase and remove-phase operations in
\* the product forms, the sequence_order values of the form's phases are
\* exactly 1..n in list order, hence pairwise distinct, and the phases
\* stored for the product never share a sequence order.
C27_SequenceOrders ==
    /\ \A i \in 1..Len(phases) : phases[i].sequence_order = i
    /\ \A i, j \in 1..Len(production_phases) :
          i # j => production_phases[i].sequence_order #
                   production_phases[j].sequence_order

\* a phase that was not the last one has been removed, in either form
C27_Witness ==
    /\ lastPhaseOp.op = "remove"
    /\ lastPhaseOp.index <= Len(phases)

\* C28: re-planning is idempotent: a successful calculateAndCreateBatches
\* on a day that already has the batches of an earlier invocation, with the
\* orders unchanged, leaves the day's production batches as they were.
C28_ReplanIdempotent ==
    [][\A d \in Days :
          (/\ lastCall'.op = "calculateAndCreateBatches"
           /\ lastCall'.id = d
           /\ lastCall'.ok
           /\ SelectBatches(production_batches, d) # <<>>) =>
              /\ SelectBatches(production_batches', d) =
                     SelectBatches(production_batches, d)
              /\ \A p \in Products :
                     BatchUnits(production_batches', d, p) =
                        BatchUnits(production_batches, d, p)]_vars

NextDayOrders ==
    \/ \E o \in OrderIds, newStatus \in OrderStatuses, fail \in BOOLEAN :
          /\ PageStatusChange(o, newStatus, fail)
          /\ UNCHANGED <<plannerVars, unitVars, stockVars, planVars, priceVars>>
    \/ \E d \in Days, fail \in {"none", "orders", "insert"} :
          /\ calculateAndCreateBatches(d, fail)
          /\ UNCHANGED <<plannerVars, unitVars, stockVars, product_recipes,
                         consolidated, products, priceVars>>

InitDayOrders ==
    /\ IdlePlanner /\ IdleUnits /\ IdleStock /\ InitProduction

\* the orders of a production day change status on the order page while
\* the day's batches are planned
SpecDayOrders ==
    /\ InitDayOrders
    /\ [][NextDayOrders]_vars

\* units of product p in the orders of day d that are not cancelled
LiveUnits(d, p) ==
    (IF orders["o1"].production_day_id = d /\ orders["o1"].status # "cancelled"
     THEN UnitsOf(order_items["o1"], p) ELSE 0)
    + (IF orders["o2"].production_day_id = d /\ orders["o2"].status # "cancelled"
       THEN UnitsOf(order_items["o2"], p) ELSE 0)

\* C29: units of cancelled orders are never planned: the batches a
\* successful calculateAndCreateBatches creates on a day without batches
\* hold, for every product, no more units than the day's orders that are
\* not cancelled ask for.
C29_CancelledNotPlanned ==
    [][\A d \in Days :
          (/\ lastCall'.op = "calculateAndCreateBatches"
           /\ lastCall'.id = d
           /\ lastCall'.ok
           /\ SelectBatches(production_batches, d) = <<>>) =>
              \A p \in Products :
                  BatchUnits(production_batches', d, p) <= LiveUnits(d, p)]_vars

\* C30: in every reachable state an order in status pending has no
\* production day assigned (production_day_id is null).
C30_PendingHasNoDay ==
    \A o \in OrderIds :
        orders[o].status = "pending" => orders[o].production_day_id = NoDay

====
